SPECIFICATION Spec
CONSTANTS
  Requests = {r1, r2}
  Keys = {k1}
  Options <- RpcOptions
  Simulations <- GoodSimulation
  HasBundle = FALSE
  MAX_SEND_ATTEMPTS = 2
  maxAttempts = 2
  AbortReasons = {}
  SerialKeys = TRUE
  MayExpire = FALSE
  MaxRestarts = 0
  MaxTip = 2
  Window = 1
INVARIANT ReportedSignatureLanded
PROPERTY ImplementsOncePerKey
CHECK_DEADLOCK FALSE
