SPECIFICATION LookupSpec
CONSTANTS
  Byte = {0, 1}
  Top = 8
  KextAddress = 1
  KextSize = 6
  Patches <- MCPatches
  Starts = {0, 3}
  MaxSizes = {0, 4}
INVARIANTS
  SuccessIsExact
  FailureIsExhaustive
PROPERTIES
  CallRefined
CHECK_DEADLOCK FALSE
