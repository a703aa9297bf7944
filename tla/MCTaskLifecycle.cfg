SPECIFICATION Spec
CONSTANTS
  Tasks <- MCTasks
  NoTask = 0
  MaxInterrupts = 1
  MaxParks = 1
  MaxCommands = 1
  MaxSubmits = 1
INVARIANTS
  TypeOK
  AtMostOneActive
  NoInvalidTransition
  NoDoubleRecord
PROPERTIES
  SettledStays
  DoneNeedsCleanTree
