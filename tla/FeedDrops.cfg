SPECIFICATION Spec
CONSTANTS
  RingSlots = 2
  PoolSizes = {3}
  Sessions = {s1}
  NoSession = NoSession
  MaxMessages = 3
  MaxBatch = 2
  Rooms = {0, 2}
  MaxReceives = 3
  kMoldEndOfSession = 65535
  kPoolInvalid = kPoolInvalid
  kNumFrames = 3
  kBatchSize = 2
INVARIANT
  DropsSurfaceAsGaps
