SPECIFICATION RunsSpec
CONSTANTS
  Configs <- MCConfigs
  Nodes <- MCNodes
  Machines <- MCMachines
  Routes <- MCRoutes
  MaxNodes = 1
  MaxChanges = 1
  MaxRestarts = 1
  CheckSets <- MCCheckSets
  Areas = {"src", "docs"}
  ToolResults <- MCToolResults
  Rewrites = {"tracked", "fresh"}
  Manifests <- MCManifests
  FixBudget = 1
  ToolBudget = 3
  MaxToolRounds = 2
  MaxCuts = 1
  MaxReruns = 1
  Securities <- MCSecurities
  Shells <- MCShells
  EnvFiles <- MCEnvFiles
  LinkSets <- MCLinkSets
  Kept <- MCKept
  Deep <- MCDeep
  MaxPrints = 1
INVARIANT EnvSafe
PROPERTIES
  LaunchSafe
  GateSafe
CHECK_DEADLOCK FALSE
