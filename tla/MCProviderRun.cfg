SPECIFICATION FairSpec
CONSTANTS
  Helpers = {h1}
  Sigs = {"provider_unavailable"}
  Windows = {1}
  StrictModes = {TRUE, FALSE}
  MaxEvents = 2
  MaxFaults = 1
INVARIANTS
  CallSafe
PROPERTIES
  ImplementsCall
  CallEnds
CHECK_DEADLOCK FALSE
