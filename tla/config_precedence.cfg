SPECIFICATION MCSpec
CONSTANTS
  Settings <- AllSettings
  Reads <- AllReads
  Writes <- AllWrites
  AbortReasons = {"AbortError", "string"}
  NetworkFee = 1
  Parts = {"config"}
  Profiles = {"default", "team"}
  Settable <- OwnKeys
  Values = {"x"}
  Environments <- AllEnvironments
INVARIANT PrecedenceKept
CHECK_DEADLOCK FALSE
