SPECIFICATION LiveSpec
CONSTANTS
  u1 = u1
  u2 = u2
  r1 = r1
  r2 = r2
  r3 = r3
  Users = {u1, u2}
  Bot = Bot
  NumClients = 4
  Requests = {r1, r2, r3}
  Asks <- ThreeAsks
  None = None
  MaxClients = 0
  Reconnects = 1
  Scheduled = TRUE
  Faults = {"refuse", "nick"}
  Commands = {}
  Matrixers = {a, b}
  Ghosts = {x}
  JoinIfNoUsers = FALSE
  MaxMoves = 2
  Calls = {k1, k2}
  Chans = {c, x}
  Excluded = {x}
  Ops = {"join", "send", "topic", "ops", "leave", "nick"}
  NoChan = NoChan
  MaxAttempts = 2
  LinkRequests = {p, q}
  Operators = {o}
  LinkRooms = {a, b}
  NoRequest = NoRequest
  MaxUnlinks = 1
  Texts = {m, n}
  Targets = {c}
  PmTarget = g
  MaxObjects = 2
INVARIANTS
  LiveTypesOK
  OneClientPerUser
  LeftMeansLeft
  NickTidy
  
  
PROPERTIES
  RequestsSettle
  EveryCallAnswered
  OperatorsFree
  
  EveryMessageEnds
CHECK_DEADLOCK FALSE
