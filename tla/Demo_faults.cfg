\* Timeouts, kills, restarts, unplugging, and payloads too long for the client or the prefix.
CONSTANTS
  PACKET = 2
  KEY = 3
  SIG = 3
  CT = 4
  MAX_PAYLOAD = 2
  U16 = 8
  Payloads = {0, 2, 3, 6}
  DefaultPayload = 2
  MaxPings = 3
  MaxCommands = 1
  Slow = TRUE
  MaxKills = 1
  MaxRestarts = 2
  MaxUnplugs = 1
SPECIFICATION Spec
INVARIANTS
  OneSecretPerRequest
  QuietBetweenPings
PROPERTIES
  AgreedUnlessInterrupted
CHECK_DEADLOCK FALSE
