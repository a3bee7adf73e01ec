SPECIFICATION SpecExported
CONSTANTS
  PT_ENTRIES = 3
  KERNEL_PT_PDT_IDX = 1
  KERNEL_PD = 1
  KERNEL_PT = 2
  START = 3
  TOTAL_FRAMES = 7
  HEAP_PAGES = 2
  ARRAY_PAGE = 4
  HeapLimit = 2
  MaxDirs = 1
INVARIANTS
  NoStaleAccess
PROPERTIES
  TempSlotRestored
CHECK_DEADLOCK FALSE
