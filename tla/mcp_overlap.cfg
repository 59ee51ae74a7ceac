SPECIFICATION Spec
CONSTANTS
  Calls = {c1, c2}
  Stdout = stdout
  MaxWrites = 1
INVARIANT BuffersPerCall
CHECK_DEADLOCK FALSE
