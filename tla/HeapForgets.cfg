CONSTANTS
  NALLOC = 4
  MaxChunks = 2
  Requests = {2, 4}
SPECIFICATION Spec
INVARIANT FreeListComplete
CHECK_DEADLOCK FALSE
