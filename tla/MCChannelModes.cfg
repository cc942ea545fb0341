SPECIFICATION ModesSpec
CONSTANTS
  Chans = {c, d}
  Handlers = {h}
  DefaultRule = "public"
  MaxModeNews = 2
INVARIANTS
  AnySecretMeansPrivate
CHECK_DEADLOCK FALSE
