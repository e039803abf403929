SPECIFICATION SpecEstablished
CONSTANTS
  s1 = s1
  s2 = s2
  s3 = s3
  v1 = v1
  None = None
  NoOp = NoOp
  Server = {s1, s2, s3}
  Value = {v1}
  SnapshotThreshold = 1
  Consume = FALSE
  Supersede = TRUE
  EagerApply = FALSE
  MaxTerm = 1
  MaxLog = 2
  MaxReads = 0
  MaxWaiting = 2
  MaxTimeouts = 0
  MaxCrashes = 0
INVARIANTS
  DurableMatchesMemory
  ApplyInOrder
  StoreFollowsLog
