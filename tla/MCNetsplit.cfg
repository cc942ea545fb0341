SPECIFICATION Spec
CONSTANTS
  Nicks = {a, b}
  Channels = {x}
  None = None
  QuitsPerSecond = 1
  MaxRequests = 3
  MaxBatches = 2

  
PROPERTY
  AllHandled
CHECK_DEADLOCK FALSE
