SPECIFICATION FairSpec
CONSTANTS
  None = None
  Messages <- PairMessages
  Threads = {"t1"}
  Matters = {"M1", "M2"}
  DocTypes = {"Exhibits", "Transcripts"}
  Thread <- PairThread
  Asks <- PairAsks
  ReceivedAt <- PairReceivedAt
  QueueMode = "tasks"
  MaxAttempts = 3
  FaultKinds = {"error", "lostAck", "crash", "timeout"}
  MaxFaults = 1
INVARIANTS
  DoneWasAnswered
  AckedIsAccounted
  ContextWasServed
  MailsArePaid
PROPERTIES
  RunsKeepDone
  TaskSettles
CHECK_DEADLOCK FALSE
