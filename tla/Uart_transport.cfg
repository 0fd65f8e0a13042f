CONSTANTS
  kReceiveBufferSize = 4
  ByteNumbers = 8
  MaxBurst = 2
  MaxPackets = 2
  MaxEvents = 1
SPECIFICATION FairSpec
INVARIANTS BytesInOrder SemaphoreOfSender
PROPERTIES BytesDelivered SendAnswered
