SPECIFICATION Spec
CONSTANTS
  RingSlots = 2
  PoolSizes = {3}
  Sessions = {s1, s2}
  NoSession = NoSession
  MaxMessages = 2
  MaxBatch = 2
  Rooms = {2}
  MaxReceives = 3
  kMoldEndOfSession = 65535
  kPoolInvalid = kPoolInvalid
  kNumFrames = 3
  kBatchSize = 2
INVARIANT
  SessionIsChecked
