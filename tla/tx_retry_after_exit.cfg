SPECIFICATION Spec
CONSTANTS
  Requests = {r1, r2}
  Keys = {k1}
  Options <- RpcOptions
  Simulations <- GoodSimulation
  HasBundle = FALSE
  MAX_SEND_ATTEMPTS = 2
  maxAttempts = 1
  AbortReasons = {}
  SerialKeys = TRUE
  MayExpire = FALSE
  MaxRestarts = 1
  MaxTip = 2
  Window = 1
INVARIANT AtMostOncePerKey
CHECK_DEADLOCK FALSE
