SPECIFICATION Spec
CONSTANTS
  Producers = {p1, p2}
  Blocks = {b1, b2}
  InitialBlockPool = {b1}
  NoBlock = NoBlock
  Garbage = Garbage
  NoMessage = NoMessage
  BLOCK_SIZE = 2
  IMPLICIT_INITIAL_INDEX_SIZE = 2
  IndexRange = 16
  OneBlock = {p2}
INVARIANTS
  TypeOK
  BlocksAccounted
  EntryFound
PROPERTY
  ImplementsQueue
