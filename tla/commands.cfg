SPECIFICATION MCSpec
CONSTANTS
  Settings <- AllSettings
  Reads <- AllReads
  Writes <- AllWrites
  AbortReasons = {"AbortError", "string"}
  NetworkFee = 1
  Parts = {"commands", "config"}
  Profiles = {"default", "team"}
  Settable <- OwnKeys
  Values = {"x"}
  Environments <- AllEnvironments
INVARIANTS
  FinalAnswerStands
  SentThroughGates
  RefusedIsUnsent
  SetIsRead
CHECK_DEADLOCK FALSE
