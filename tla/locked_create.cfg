SPECIFICATION Spec
CONSTANTS
  c1 = c1  c2 = c2  c3 = c3  p1 = p1  p2 = p2
  Calls = {c1, c2}
  Procs = {p1, p2}
  Home <- OneEach
  Asked <- Sets
  Names = {"a", "b"}
  Values = {"v"}
  Stores = {"config"}
  InitialFiles = {"absent"}
  FirstAlone = FALSE
  MayDie = {}
  MayFail = FALSE
  retries = 1
INVARIANT IndependentWritesKept
CHECK_DEADLOCK FALSE
