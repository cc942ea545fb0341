SPECIFICATION BridgeSpec
CONSTANTS
  u1 = u1
  r1 = r1
  r2 = r2
  Users = {u1}
  Bot = Bot
  NumClients = 3
  Requests = {r1, r2}
  Asks <- TwoAsks
  None = None
  MaxClients = 2
  Reconnects = 1
  Scheduled = FALSE
  Faults = {"drop", "db", "refuse", "ban", "nick"}
  Commands = {"idle", "reconnect", "kill"}
  Inquiries = {p, q}
  NoAsk = NoAsk
  MaxRooms = 2
  MaxTries = 2
  MaxMoves = 3
  Members = {a}
  Messages = {m, n}
  MaxEvents = 2
  PolicyRooms = {l1}
  Keys = {k, j}
  Types = {"user", "server"}
  BanReads = {1, 2}
  MaxChanges = 2
  Speakers = {a, d}
  Bridged = {a}
  NumRooms = 2
  MaxModeLines = 2
  Socks = {s1, s2}
  NoSock = NoSock
  MaxMissed = 2
  MaxInbox = 2
  MaxOutbox = 2
  People = {a, d, e}
  MaxSuffix = 1
  MaxDials = 3
  MaxCommands = 1
  MaxCrashes = 1
  Chans = {e, f}
  Handlers = {g, h}
  DefaultRule = "public"
  MaxModeNews = 3
INVARIANTS
  BridgeTypeOK
  
  RoomsDoNotMultiply
  CachesFollow
  
  
  OneSocket
  NoGhost
  
  PublicityFollows
CHECK_DEADLOCK FALSE
