SPECIFICATION Spec
CONSTANTS
  MaxRows = 6
  Limits = {4}
  Doc <- OwnDoc
  Window = 3
  Above = 1
  Below = 1
  Step = 2
  MaxNoProgress = 3
  FaultKinds = {"hang"}
  MaxFaults = 1
INVARIANTS
  HangIsSkipped
CHECK_DEADLOCK FALSE
