\* The host is started again after a late answer.
CONSTANTS
  PACKET = 2
  KEY = 3
  SIG = 3
  CT = 4
  MAX_PAYLOAD = 2
  U16 = 8
  Payloads = {1}
  DefaultPayload = 1
  MaxPings = 3
  MaxCommands = 0
  Slow = TRUE
  MaxKills = 0
  MaxRestarts = 1
  MaxUnplugs = 0
SPECIFICATION Spec
INVARIANT
  SecretIsShared
CHECK_DEADLOCK FALSE
