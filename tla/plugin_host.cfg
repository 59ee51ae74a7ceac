SPECIFICATION Spec
CONSTANTS
  c1 = c1  c2 = c2  c3 = c3  p1 = p1  p2 = p2
  Calls = {c1, c2, c3}
  Procs = {p1, p2}
  Home <- TwoAndOne
  Asked <- Mixed
  Ids = {"x", "y"}
  Versions = {"1", "2"}
  Slug <- Apart
  Tarballs <- Packages
  Pins = {"a"}
  Installed <- Recorded1
  MayDie = {p2}
  MayFail = TRUE
INVARIANTS TypeOK StoreWhole OnlyAdmitted Undisturbed
CHECK_DEADLOCK FALSE
