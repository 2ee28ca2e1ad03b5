SPECIFICATION Spec
CONSTANTS
  None = None
  Messages <- PairMessages
  Threads = {"t1"}
  Matters = {"M1", "M2"}
  DocTypes = {"Exhibits", "Transcripts"}
  Thread <- PairThread
  Asks <- RivalAsks
  ReceivedAt <- PairReceivedAt
  QueueMode = "inline"
  MaxAttempts = 1
  FaultKinds = {"error"}
  MaxFaults = 0
PROPERTIES
  ContextMovesForward
CHECK_DEADLOCK FALSE
