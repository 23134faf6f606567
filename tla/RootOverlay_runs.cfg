SPECIFICATION Spec
CONSTANTS
  Items <- SomeItems
  Protected <- SystemItems
  Optional = {"AppleIntelFramebufferCapri", "L/AMDRadeonX4000"}
  Sources <- AllSources
  UserOwned = {"13.5.2", "aligned"}
  Scripts <- ScriptNames
  Program <- ProgramOf
  Needs <- NeedsOf
  StashNames <- StashOf
  StashResults <- AnyStashes
  MaxRuns = 2
  None <- NoItem
INVARIANTS
  OriginalsRecoverable
  TornOnlyFromOthers
  CollectionsMatchSnapshot
  SnapshotComplete
  SnapshotFinished
CHECK_DEADLOCK FALSE
