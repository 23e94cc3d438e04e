\* The four copies, two calls: the counter of the first is what the second finds.
CONSTANTS
  Bundles = {"sha3", "ml_kem", "ml_dsa", "combined"}
  Calls = 2
SPECIFICATION Spec
INVARIANTS
  RoundsAreKeccak
  ConstantsInOrder
CHECK_DEADLOCK FALSE
