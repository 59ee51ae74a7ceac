SPECIFICATION Spec
CONSTANTS
  c1 = c1  c2 = c2  c3 = c3  p1 = p1  p2 = p2
  Calls = {c1, c2, c3}
  Procs = {p1, p2}
  Home <- OneThenOne
  Asked <- InstallsVerified
  Ids = {"x", "y"}
  Versions = {"1", "2"}
  Slug <- Apart
  Tarballs <- Rebuilt
  Pins = {"a"}
  Installed = {}
  MayDie = {}
  MayFail = FALSE
PROPERTY VerifiedIntegrity
CHECK_DEADLOCK FALSE
