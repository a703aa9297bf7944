SPECIFICATION FairSpec
CONSTANTS
  Diffs <- MCDiffs
  DependencyPaths <- MCDependencyPaths
  ProtectedPaths <- MCProtectedPaths
  MaxCycle = 1
  MaxPrompts = 2
  MaxUpdates = 2
  MaxFaults = 1
  Configs <- MCConfigs
  AgentAsks <- MCAgentAsks
INVARIANTS
  AsksSafe
PROPERTIES
  DenialStands
  AskEnds
CHECK_DEADLOCK FALSE
