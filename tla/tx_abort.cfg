SPECIFICATION Spec
CONSTANTS
  Requests = {r1}
  Keys = {k1}
  Options <- RpcOptions
  Simulations <- GoodSimulation
  HasBundle = FALSE
  MAX_SEND_ATTEMPTS = 2
  maxAttempts = 1
  AbortReasons = {"string"}
  SerialKeys = FALSE
  MayExpire = FALSE
  MaxRestarts = 0
  MaxTip = 2
  Window = 1
INVARIANT AbortPropagates
CHECK_DEADLOCK FALSE
