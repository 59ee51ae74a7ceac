SPECIFICATION FairSpec
CONSTANTS
  c1 = c1  c2 = c2  c3 = c3  p1 = p1  p2 = p2
  Calls = {c1, c2, c3}
  Procs = {p1, p2}
  Home <- TwoAndOne
  Asked <- Mixed
  Names = {"a", "b"}
  Values = {"v"}
  Stores = {"vault", "config"}
  InitialFiles = {"absent", "entries"}
  FirstAlone = TRUE
  MayDie = {p2}
  MayFail = TRUE
  retries = 1
INVARIANTS TypeOK FileWhole OneSalt LockReturned
PROPERTIES EveryCallEnds ImplementsAtomicMap
CHECK_DEADLOCK FALSE
