\* The buffer is the caller's, with whatever it held before.
CONSTANTS
  COEFFS = 4
  ROWS = 2
  OMEGA = 2
  COLUMNS = 6
  BOUND = 3
  U16 = 18
  CONTEXT_MAX_LEN = 2
  ContextLens = {0, 2, 3}
  FreshBuffer = FALSE
SPECIFICATION Spec
INVARIANT
  SignatureVerifies
CHECK_DEADLOCK FALSE
