CONSTANTS
  N = 3
  Group = 2
  FirstGroups = 2
  NextGroups = 1
  Patience = 3
  Lanes = 3
  Rows = {2, 3}
  Columns = {2}
  Ranks = {2, 3}
  Length = 6
  Ones = 3
  FirstBytes = 2
  BlockBytes = 3
SPECIFICATION Spec
INVARIANTS
  FirstAccepted
  WritesInBounds
  ChallengeRight
PROPERTY
  SamplingEnds
CHECK_DEADLOCK FALSE
