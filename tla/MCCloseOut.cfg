SPECIFICATION CloseSpec
CONSTANTS
  Findings = {"nit", "note", "defect"}
  Gating = {"defect"}
  Size <- MCSize
  Blocking = TRUE
  MaxReworkPerStage = 1
  GlobalMode = "all"
  FlowMode = "events"
  Triggers = {"rework"}
  Included = FALSE
  FinalBudget = 2
  SupersededBudget = 2
  PacketBudget = 3
  MaxSubtasks = 3
  Plans <- MCPlans
  Authored = {"two"}
  Reports <- MCReports
  MaxFix = 1
  MaxCrashes = 1
  Debts = {}
  MaxReruns = 1
PROPERTIES
  SplitSafe
  CloseSafe
CHECK_DEADLOCK FALSE
