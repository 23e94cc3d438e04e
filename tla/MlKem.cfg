\* Rank 3, both variants, two messages.
SPECIFICATION Spec
CONSTANTS
  K = 3
  Variants = {"MlKem", "Kyber"}
  Randomness = {m1, m2}
INVARIANTS
  NoiseFresh
  Agreement
  ImplicitRejection
CHECK_DEADLOCK FALSE
