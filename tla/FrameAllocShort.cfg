CONSTANTS
  PT_ENTRIES = 4
  TOTAL_PAGE_FRAME_NUMS = 8
  WORD_BITS = 2
  KERNEL_END_FRAME = 1
SPECIFICATION Spec
PROPERTY FailsOnlyWhenShort
