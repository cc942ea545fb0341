SPECIFICATION MCSpec
CONSTANTS
  c1 = c1  c2 = c2  c3 = c3  c4 = c4  c5 = c5  i1 = i1  i2 = i2
  Calls <- MCCalls
  Ids <- MCIds
  IdOf <- MCIdOf
  Waiters = {w1}
  None = None
  Intervals = {TRUE, FALSE}
  N = 2
  TurnCalls <- MCCalls
  IndexOf <- MCIndex
INVARIANTS
  FifoPlacement
  NoStarvation
PROPERTIES
  IsServiceLine
  
  EveryCallSettles
  
  PoolIsServiceLine
  PoolCallsSettle
CHECK_DEADLOCK FALSE
