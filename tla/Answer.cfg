SPECIFICATION FairSpec
CONSTANTS
  None = None
  Matters <- TwoMatters
  Types = {"Exhibits", "Transcripts"}
  Counts = {0, 1, 3}
  Printed = {0, 1, 2, 3, 13}
  Writings <- Guesses
  MaxDocuments = 2
  FaultKinds = {"raise", "keystroke", "slow", "download", "close"}
  MaxFaults = 2
INVARIANTS
  TypeOK
  TotalIsTrue
  TextKeepsFacts
PROPERTIES
  Ends
CHECK_DEADLOCK FALSE
