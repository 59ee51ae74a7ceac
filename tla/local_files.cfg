SPECIFICATION MCSpec
CONSTANTS
  c1 = c1
  c2 = c2
  c3 = c3
  p1 = p1
  p2 = p2
  Home <- CallHome
  Names = {"a", "b"}
  SecretsAsked <- SecretJobs
  CacheAsked <- CacheJobs
  Ttls = {0, 1}
  Waiters = {w1, w2}
  MayFail = TRUE
  MaxLines = 3
  defaultTtl = 2
  MaxTime = 4
  Base = 2
  KeyBytes = 3
  Types <- TypesAsked
  Raws <- RawsAsked
  Cmds = {c1, c2, c3}
  Pids = {"P", "Q"}
  Labels = {"a", "b"}
  short <- Shorts
  Idls = {"i1", "i2"}
  metadataName <- TwoNames
  instructions <- Instructions
  dotted <- DottedLabels
  lower <- LowerCase
  Asked <- Jobs
INVARIANTS
  TypeOK
  LabelKept
  NoDangling
  CallEncodes
  MemoryTrue
  IndexTrue
  LinesKept
CHECK_DEADLOCK FALSE
