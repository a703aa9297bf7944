SPECIFICATION FairSpec
CONSTANTS
  Nodes <- MCNodes
  Kind <- MCKind
  Edges <- MCEdges
  budgets <- MCbudgets
  Disabled = {}
  Advisory = {"critic"}
  MaxReworkPerStage = 2
  FactSkipped = {"refinement"}
  Region <- MCRegion
  MaxFixCycles = 3
  MaxTotalFix = 3
  Diffs = {"d1", "d2"}
  Findings = {"empty", "f1", "f2"}
  NoFindings = "empty"
  Gating = {"f1", "f2"}
  MaxInterrupts = 1
  MaxContinues = 1
INVARIANTS
  TypeOK
  BudgetsRespected
  BackstopCountsEveryRound
  AdvisoryNeverParks
  NoIdleRounds
PROPERTIES
  EndsAsDeclared
CHECK_DEADLOCK FALSE
