SPECIFICATION Spec
CONSTANTS
  Requests = {r1}
  Keys = {k1}
  Options <- JitoOptions
  Simulations <- GoodSimulation
  HasBundle = FALSE
  MAX_SEND_ATTEMPTS = 2
  maxAttempts = 1
  AbortReasons = {}
  SerialKeys = FALSE
  MayExpire = FALSE
  MaxRestarts = 0
  MaxTip = 2
  Window = 1
INVARIANT BundleOrNothing
CHECK_DEADLOCK FALSE
