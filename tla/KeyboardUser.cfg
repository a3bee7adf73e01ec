CONSTANTS
  KBD_BUFFER_SIZE = 2
  MaxKeys = 2
SPECIFICATION UserSpec
PROPERTY HardwareInterruptsServed
CHECK_DEADLOCK FALSE
