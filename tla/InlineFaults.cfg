SPECIFICATION Spec
CONSTANTS
  None = None
  Messages <- TrioMessages
  Threads = {"t1"}
  Matters = {"M1", "M2"}
  DocTypes = {"Exhibits", "Transcripts"}
  Thread <- TrioThread
  Asks <- TrioAsks
  ReceivedAt <- TrioReceivedAt
  QueueMode = "inline"
  MaxAttempts = 1
  FaultKinds = {"error", "blank", "lostAck", "crash"}
  MaxFaults = 1
INVARIANTS
  TypeOK
  DoneWasAnswered
  AckedIsAccounted
  ContextWasServed
  RequestWasAsked
  OneFailureIsMailed
CHECK_DEADLOCK FALSE
