SPECIFICATION PatchingSpec
CONSTANTS
  Kernels <- MCKernels
  BootArgs <- MCBootArgs
  Tables = 3
  MaxKexts = 2
INVARIANTS
  AppliedIsDone
  ErrorsStayLocal
  SwitchedOffWritesNothing
  DepthTablesClamped
CHECK_DEADLOCK FALSE
