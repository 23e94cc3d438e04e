\* Every hint section of five bytes below 5, of two rows and at most three ones.
CONSTANTS
  COEFFS = 5
  ROWS = 2
  OMEGA = 3
  COLUMNS = 2
SPECIFICATION Spec
INVARIANTS
  PositionsInBounds
  OneEncoding
PROPERTIES
  ImplementsVerifySpec
CHECK_DEADLOCK FALSE
