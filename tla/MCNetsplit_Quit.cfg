SPECIFICATION Spec
CONSTANTS
  Nicks = {a, b, c}
  Channels = {x}
  None = None
  QuitsPerSecond = 1
  MaxRequests = 1
  MaxBatches = 1
PROPERTY
  QuitBridged
CHECK_DEADLOCK FALSE
