SPECIFICATION MemSpec
CONSTANTS
  Paths = {"a/f", "b/f", "x/g", "y/g", "z/g"}
  basename <- MCBase
  MinTasks = 2
  Window = 0
  Ttl = 0
  MaxScanned = 4
  MaxEdits = 2
  MaxLongTerm = 2
  MaxEntity = 1
  MaxLines = 8
  Tasks = {t1, t2}
  None = None
  Deltas <- MCDeltas
  Nodes = {"review"}
  Trees <- MCTrees
  Scopes <- MCScopes
  MaxTime = 1
  MaxFinals = 2
  MaxCleanups = 1
  MaxCommands = 1
  MaxStops = 1
SYMMETRY MCSymmetry
INVARIANTS
  StoreSafe
PROPERTIES
  NothingLost
CHECK_DEADLOCK FALSE
