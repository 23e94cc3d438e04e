\* No faults: payloads up to the client's room, changed at any time.
CONSTANTS
  PACKET = 2
  KEY = 3
  SIG = 3
  CT = 4
  MAX_PAYLOAD = 2
  U16 = 8
  Payloads = {0, 1, 2}
  DefaultPayload = 1
  MaxPings = 3
  MaxCommands = 3
  Slow = FALSE
  MaxKills = 0
  MaxRestarts = 0
  MaxUnplugs = 0
SPECIFICATION FairSpec
PROPERTIES
  PingsGoOn
  ImplementsKeyExchange
CHECK_DEADLOCK FALSE
