SPECIFICATION FairSpec
CONSTANTS
  vendor = vendor
  legacy = legacy
  testVRAM = testVRAM
  doAttribute = doAttribute
  skipVRAM = skipVRAM
  other = other
  third = third
  Functions = {vendor, legacy, testVRAM}
  Hooks = {doAttribute, skipVRAM, other, third}
  Far = {doAttribute, other, third}
  Passing = {doAttribute, other, third}
  Answering = {doAttribute, skipVRAM}
  Align <- MCAlign
  Requests <- MCRequests
  SlotCount = 2
  MaxTrampolines = 3
  Callers = {c1, c2}
INVARIANTS
  OriginalReached
  TornOnlyUnaligned
  RoutesCompose
PROPERTY CallsReturn
CHECK_DEADLOCK FALSE
