SPECIFICATION Spec
CONSTANTS
  Watchers = {w1}
  Runners = {r1, r2}
  Stoppers = {s1}
  Platforms <- MCBoth
  MaxAgents = 1
  MaxFaults = 1
INVARIANTS
  ClaimSafe
  GracefulExit
PROPERTIES
  StopHonoured
  NoLockout
CHECK_DEADLOCK FALSE
