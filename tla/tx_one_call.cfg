SPECIFICATION FairSpec
CONSTANTS
  Requests = {r1}
  Keys = {k1}
  Options <- AllOptions
  Simulations <- AllSimulations
  HasBundle = TRUE
  MAX_SEND_ATTEMPTS = 3
  maxAttempts = 3
  AbortReasons = {"AbortError", "string"}
  SerialKeys = FALSE
  MayExpire = TRUE
  MaxRestarts = 1
  MaxTip = 2
  Window = 0
INVARIANT TypeOK
INVARIANT GatesBeforeSubmit
INVARIANT DefiniteFailures
INVARIANT OneTerminalEvent
INVARIANT OneSignatureAfloat
PROPERTY NoSubmissionAfterAbort
PROPERTY EndsOrAwaitsConfirmation
CHECK_DEADLOCK FALSE
