SPECIFICATION FairSpec
CONSTANTS
  RingSlots = 2
  PoolSizes = {3}
  Sessions = {s1}
  NoSession = NoSession
  MaxMessages = 2
  MaxBatch = 2
  Rooms = {1, 2}
  MaxReceives = 2
  kMoldEndOfSession = 65535
  kPoolInvalid = kPoolInvalid
  kNumFrames = 3
  kBatchSize = 2
PROPERTY
  DeadProducerEndsRun
