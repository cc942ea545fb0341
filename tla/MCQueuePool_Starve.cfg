SPECIFICATION QueuesSpec
CONSTANTS
  c1 = c1
  c2 = c2
  c3 = c3
  c4 = c4
  c5 = c5
  Calls <- MCCalls
  None = None
  N = 2
  TurnCalls <- FirstThree
  IndexOf <- MCIndex
INVARIANTS
  NoStarvation
CHECK_DEADLOCK FALSE
