\* Three attempts, masks of six polynomials, separators that just suffice.
CONSTANTS
  COEFFS = 4
  ROWS = 2
  OMEGA = 2
  COLUMNS = 6
  BOUND = 3
  U16 = 18
  CONTEXT_MAX_LEN = 2
  ContextLens = {0, 2, 3}
  FreshBuffer = TRUE
SPECIFICATION Spec
INVARIANTS
  MasksFresh
  FailsOnlyAfterBound
  SignatureVerifies
PROPERTIES
  NoMaskAfterAcceptance
CHECK_DEADLOCK FALSE
