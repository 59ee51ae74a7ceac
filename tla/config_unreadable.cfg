SPECIFICATION MCSpec
CONSTANTS
  Settings <- AllSettings
  Reads <- AllReads
  Writes <- AllWrites
  AbortReasons = {"AbortError", "string"}
  NetworkFee = 1
  Parts = {"config"}
  Profiles = {"default", "team"}
  Settable <- ProviderKeys
  Values = {"x"}
  Environments <- AllEnvironments
INVARIANT StaysRepairable
CHECK_DEADLOCK FALSE
