SPECIFICATION FairSpec
CONSTANTS
  t1 = t1
  t2 = t2
  t3 = t3
  Threads = {t1, t2, t3}
  NoThread = NoThread
  HashOf <- MCHashOf
  INITIAL_IMPLICIT_PRODUCER_HASH_SIZE = 2
INVARIANTS
  TypeOK
  RoomLeft
  CountAccounted
PROPERTIES
  SameProducer
  Served
