CONSTANTS
  PT_ENTRIES = 2
  TOTAL_PAGE_FRAME_NUMS = 6
  WORD_BITS = 2
  KERNEL_END_FRAME = 1
SPECIFICATION FairSpec
INVARIANTS
  TypeOK
  EachFrameOnce
  KernelFramesSafe
  EmptyMeansExhausted
PROPERTIES
  NoSilentLoss
  CallReturns
  RefinesFramePool
