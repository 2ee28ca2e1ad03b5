SPECIFICATION Spec
CONSTANTS
  Documents = 3
  NFiles <- ThreeModals
  Attempts = 3
  FaultKinds = {"start"}
  MaxFaults = 1
INVARIANTS
  EveryFile
CHECK_DEADLOCK FALSE
