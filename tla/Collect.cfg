SPECIFICATION FairSpec
CONSTANTS
  MaxRows = 12
  Limits = {4, 12}
  Doc <- SharedDoc
  Window = 3
  Above = 1
  Below = 2
  Step = 1
  MaxNoProgress = 3
  FaultKinds = {"rows", "geometry", "click", "hang", "download", "stuck", "escape", "scroll"}
  MaxFaults = 2
INVARIANTS
  TypeOK
  Accounted
  WithinLimit
  IsolatedLosses
PROPERTIES
  DecidedOnce
  Ends
CHECK_DEADLOCK FALSE
