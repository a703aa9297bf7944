SPECIFICATION Spec
CONSTANTS
  Scopes <- MCScopes
  FromNodes <- MCFrom
  MaxCommands = 1
  MaxEvents = 2
INVARIANTS
  TypeOK
  ReviewSeesAll
  NoMergeInFlight
PROPERTIES
  ForeignKept
CHECK_DEADLOCK FALSE
