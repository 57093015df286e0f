SPECIFICATION FairSpec
CONSTANTS
  Types = {"A", "F", "D", "E", "C", "X", "U", "other"}
  MaxFile = 3
  MaxPerPackets = {0, 1, 2, 3}
  PacketBytes = 57
  BufferSizes = {45, 57}
  BatchEntries = 2
  WordBytes = 2
  ByteValues = 2
INVARIANTS
  CountsAgree
  TypeOK
  BatchFits
  NumbersFollow
  AppliesTheFile
  SendsTheFile
  PrefetchIsNextKey
  ReadsItsOwnBytes
PROPERTY
  RunEnds
