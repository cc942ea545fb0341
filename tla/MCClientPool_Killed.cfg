SPECIFICATION Spec
CONSTANTS
  u1 = u1
  u2 = u2
  r1 = r1
  r2 = r2
  r3 = r3
  Users = {u1}
  Bot = Bot
  NumClients = 4
  Requests = {r1, r2}
  Asks <- TwoAsks
  None = None
  MaxClients = 0
  Reconnects = 1
  Scheduled = FALSE
  Faults = {}
  Commands = {"kill"}
PROPERTIES
  KilledForEver
CHECK_DEADLOCK FALSE
