CONSTANTS
  Lines = {0, 1, 3}
  Faults = {6, 13, 14}
  MaxRaises = 4
SPECIFICATION FairSpec
INVARIANTS
  LinesReleased
  DevicesDoNotPrint
PROPERTIES
  ResumesAsInterrupted
  PageFaultHalts
CHECK_DEADLOCK FALSE
