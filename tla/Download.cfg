SPECIFICATION FairSpec
CONSTANTS
  Documents = 3
  NFiles <- ThreeModals
  Attempts = 3
  FaultKinds = {"click", "start", "transfer", "other"}
  MaxFaults = 5
INVARIANTS
  TypeOK
  OwnFiles
  NothingGivenUpEarly
PROPERTIES
  EverySettled
CHECK_DEADLOCK FALSE
