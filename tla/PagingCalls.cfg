SPECIFICATION Spec
CONSTANTS
  PT_ENTRIES = 4
  KERNEL_PT_PDT_IDX = 2
  KERNEL_PD = 1
  KERNEL_PT = 2
  START = 3
  TOTAL_FRAMES = 13
  HEAP_PAGES = 2
  ARRAY_PAGE = 9
  HeapLimit = 6
  MaxDirs = 2
INVARIANTS
  FramesApart
PROPERTIES
  RefinesAddressSpace
  KernelImageKept
CHECK_DEADLOCK FALSE
