SPECIFICATION Spec
CONSTANTS
  None = None
  Messages <- LoneMessages
  Threads = {"t1"}
  Matters = {"M1", "M2"}
  DocTypes = {"Exhibits", "Transcripts"}
  Thread <- LoneThread
  Asks <- LoneAsks
  ReceivedAt <- LoneReceivedAt
  QueueMode = "tasks"
  MaxAttempts = 2
  FaultKinds = {"error"}
  MaxFaults = 1
INVARIANTS
  AtMostOneMail
CHECK_DEADLOCK FALSE
