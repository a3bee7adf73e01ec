CONSTANTS
  HALF = 32
  BYTE = 2
  FifoSize = 2
  Texts = {0, 2, 3}
  MaxTexts = 2
  Formats <- MCFormats
  Arguments <- MCArguments
SPECIFICATION Spec
INVARIANTS
  QuotientRight
  RoundingRight
  PrintsFormat
  OnlyLastByteLost
PROPERTY CallsReturn
CHECK_DEADLOCK FALSE
