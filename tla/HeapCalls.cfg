CONSTANTS
  NALLOC = 4
  MaxChunks = 3
  Requests = {2, 3, 4, 7}
SPECIFICATION FairSpec
INVARIANTS
  TypeOK
  Sorted
  Disjoint
  Coalesced
  NothingLost
PROPERTIES
  GrowsOnlyWhenShort
  RefinesArena
  CallReturns
CHECK_DEADLOCK FALSE
