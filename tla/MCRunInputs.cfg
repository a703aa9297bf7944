SPECIFICATION Spec
CONSTANTS
  Tasks = {t1, t2}
  CleanRuns = TRUE
  MaxEdits = 1
  MaxForges = 1
  MaxFaults = 2
  MaxCommands = 1
  MaxNodes = 2
INVARIANTS
  InputsSafe
PROPERTIES
  RemovedIsSealed
CHECK_DEADLOCK FALSE
