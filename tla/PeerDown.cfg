SPECIFICATION Spec
CONSTANTS
  heartbeat = heartbeat
  round1 = round1
  round2 = round2
  NoStream = NoStream
  Stream = {heartbeat, round1, round2}
  Size = {1}
  kMaxPendingFrames = 3
  kMaxPendingBytes = 4
  MaxSends = 4
  MaxFaults = 0
PROPERTIES
  PeerDownIsHarmless
CHECK_DEADLOCK FALSE
