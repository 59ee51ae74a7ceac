SPECIFICATION MCSpec
CONSTANTS
  Settings <- AllSettings
  Reads <- AllReads
  Writes <- AllWrites
  AbortReasons = {"AbortError", "string"}
  NetworkFee = 1
  Parts = {"commands"}
  Profiles = {"default", "team"}
  Settable <- OwnKeys
  Values = {"x"}
  Environments <- AllEnvironments
INVARIANT Token2022Refused
CHECK_DEADLOCK FALSE
