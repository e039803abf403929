CONSTANTS
  c1 = c1
  c2 = c2
  Session <- Connections
  Kinds <- AllKinds
  MaxCommands = 2
  MaxChanges = 1
SPECIFICATION Spec
INVARIANTS
  TypeOK
  RepliesInOrder
  RequestsAccounted
  OutcomesTruthful
  NoOrphanReads
PROPERTIES
  EveryRequestAnswered
  StopsClean
CHECK_DEADLOCK FALSE
