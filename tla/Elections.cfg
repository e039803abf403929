SPECIFICATION Spec
CONSTANTS
  s1 = s1
  s2 = s2
  s3 = s3
  None = None
  NoOp = NoOp
  Server = {s1, s2, s3}
  Value = {}
  SnapshotThreshold = 0
  Consume = FALSE
  Supersede = FALSE
  EagerApply = TRUE
  MaxTerm = 1
  MaxLog = 0
  MaxReads = 0
  MaxWaiting = 2
  MaxTimeouts = 2
  MaxCrashes = 1
SYMMETRY Symmetry
INVARIANTS
  TypeOK
  ElectionSafety
  DurableMatchesMemory
PROPERTIES
  VoteStands
