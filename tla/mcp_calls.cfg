SPECIFICATION Spec
CONSTANTS
  Calls = {c1, c2, c3}
  Stdout = stdout
  MaxWrites = 2
INVARIANTS TypeOK CleanStdout AnswersOwnOutput OutputRestored
CHECK_DEADLOCK FALSE
