SPECIFICATION FairSpec
CONSTANTS
  heartbeat = heartbeat
  round1 = round1
  round2 = round2
  NoStream = NoStream
  Stream = {heartbeat}
  Size = {1, 2}
  kMaxPendingFrames = 2
  kMaxPendingBytes = 4
  MaxSends = 3
  MaxFaults = 2
INVARIANTS
  TypeOK
  NeverStalls
  ReservationsExact
  QueueInOrder
PROPERTIES
  ImplementsNetwork
  QueueDrains
  StopCompletes
CHECK_DEADLOCK FALSE
