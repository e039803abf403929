SPECIFICATION Spec
CONSTANTS
  s1 = s1
  None = None
  Damaged = Damaged
  HardState <- HardStates
  Entry <- Entries
  Snapshot <- Snapshots
  MaxRecords = 4
  MaxFailures = 2
INVARIANTS
  TypeOK
  BinarySearchSound
  VouchedSurvives
PROPERTIES
  ImplementsDurableLog
CHECK_DEADLOCK FALSE
