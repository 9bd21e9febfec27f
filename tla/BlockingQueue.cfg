SPECIFICATION FairSpec
CONSTANTS
  Producers = {p1, p2, p3}
  NoProducer = NoProducer
  BlockSize = 2
  ScanLimit = 2
  MaxMessages = 2
INVARIANTS
  SemaphoreAccounting
  NoLostWakeup
  ScanSucceeds
PROPERTIES
  ImplementsQueue
  ImplementsFairQueue
CHECK_DEADLOCK FALSE
