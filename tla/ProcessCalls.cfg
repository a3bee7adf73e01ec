SPECIFICATION ProcessSpec
CONSTANTS
  PT_ENTRIES = 4
  KERNEL_PT_PDT_IDX = 2
  KERNEL_PD = 1
  KERNEL_PT = 2
  START = 3
  TOTAL_FRAMES = 16
  HEAP_PAGES = 2
  ARRAY_PAGE = 9
  HeapLimit = 4
  MaxDirs = 2
  PROGRAM = 8
  MaxExecs = 2
INVARIANTS
  ProcessPagesApart
  SwitchKeepsKernel
PROPERTIES
  KernelPagesKept
  DirectoryFrameRecorded
  TempSlotRestored
CHECK_DEADLOCK FALSE
