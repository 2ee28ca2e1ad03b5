SPECIFICATION FairSpec
CONSTANTS
  None = None
  Messages <- PairMessages
  Threads = {"t1"}
  Matters = {"M1", "M2"}
  DocTypes = {"Exhibits", "Transcripts"}
  Thread <- PairThread
  Asks <- PairAsks
  ReceivedAt <- PairReceivedAt
  QueueMode = "inline"
  MaxAttempts = 1
  FaultKinds = {"error", "blank", "crash"}
  MaxFaults = 2
PROPERTIES
  PromiseKept
  InlineSettles
CHECK_DEADLOCK FALSE
