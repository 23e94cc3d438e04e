\* Every way to cut up to nine binary bytes into calls, three-byte blocks.
CONSTANTS
  RATE = 3
  DELIM = 31
  Byte <- MCByte
  Inputs <- MCInputs
  OutLens = {0, 1, 3, 4, 7}
  MaxInput = 9
  MaxUsed = 2
SPECIFICATION Spec
INVARIANTS
  TypeOK
  NothingLostOrRepeated
  SlicesInBounds
  FirstSqueezeIsOneShot
  UnbufferedFollowsStream
PROPERTIES
  FreshOutput
  ImplementsXofSpec
CHECK_DEADLOCK FALSE
