CONSTANTS
  KBD_BUFFER_SIZE = 2
  MaxKeys = 4
SPECIFICATION FairSpec
INVARIANTS
  TypeOK
  OneHandlerAtWork
  RingsDrained
  NoLostInterrupt
  OutputInOrder
PROPERTY KeysAreRead
CHECK_DEADLOCK FALSE
