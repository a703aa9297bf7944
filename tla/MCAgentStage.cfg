SPECIFICATION FairSpec
CONSTANTS
  Sigs = {"session_unavailable", "provider_unavailable"}
  Windows = {1, 2, 4}
  StrictModes = {TRUE, FALSE}
  Routes <- MCRoutes
  Profiles <- MCProfiles
  CanIsolate = {"claude"}
  MaxStageAttempts = 2
  MaxRetries = 2
  MaxBlocked = 2
INVARIANTS
  StageSafe
PROPERTIES
  StageSteps
  ParksEnd
CHECK_DEADLOCK FALSE
