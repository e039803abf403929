SPECIFICATION SpecElected
CONSTANTS
  s1 = s1
  s2 = s2
  s3 = s3
  v1 = v1
  None = None
  NoOp = NoOp
  Server = {s1, s2, s3}
  Value = {v1}
  SnapshotThreshold = 0
  Consume = TRUE
  Supersede = TRUE
  EagerApply = TRUE
  MaxTerm = 2
  MaxLog = 1
  MaxReads = 0
  MaxWaiting = 2
  MaxTimeouts = 1
  MaxCrashes = 0
INVARIANTS
  LeaderCompleteness
  ElectableHaveCommitted
  StateMachineSafety
  AckedOnMajority
