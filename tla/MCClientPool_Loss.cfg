SPECIFICATION LossSpec
CONSTANTS
  u1 = u1
  u2 = u2
  r1 = r1
  r2 = r2
  r3 = r3
  Users = {u1}
  Bot = Bot
  NumClients = 4
  Requests = {r1}
  Asks <- OneU1
  None = None
  MaxClients = 0
  Reconnects = 1
  Scheduled = FALSE
  Faults = {"drop", "nick"}
  Commands = {"idle", "reconnect"}
INVARIANTS
  OneConnectionPerUser
  NoOrphan
  
  PendingSound
PROPERTIES
  LostComesBack
  BotComesBack
CHECK_DEADLOCK FALSE
