SPECIFICATION RelaySpec
CONSTANTS
  Texts = {m}
  Targets = {c}
  PmTarget = g
  MaxObjects = 1
PROPERTIES
  InviteHolds
CHECK_DEADLOCK FALSE
