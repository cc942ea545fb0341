SPECIFICATION Spec
CONSTANTS
  c1 = c1  c2 = c2  c3 = c3
  Clients = {b, c1, c2, c3}
  Bot = b
  Nicks = {n1, n2, n3}
  NoNick = NoNick
  Texts = {x, y}
  Kept = {y}
  MaxLines = 2
SYMMETRY MCSymmetry
INVARIANTS
  AtMostOnce
  NoSilentLoss
  StartsInOrder
CHECK_DEADLOCK FALSE
