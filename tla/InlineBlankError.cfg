SPECIFICATION Spec
CONSTANTS
  None = None
  Messages <- LoneMessages
  Threads = {"t1"}
  Matters = {"M1", "M2"}
  DocTypes = {"Exhibits", "Transcripts"}
  Thread <- LoneThread
  Asks <- LoneAsks
  ReceivedAt <- LoneReceivedAt
  QueueMode = "inline"
  MaxAttempts = 1
  FaultKinds = {"blank"}
  MaxFaults = 1
INVARIANTS
  FailureIsMailed
CHECK_DEADLOCK FALSE
