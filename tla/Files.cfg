SPECIFICATION FairSpec
CONSTANTS
  None = None
  Runs = {1, 2}
  Hosts = {"h1", "h2"}
  Names = {"a", "b"}
  Batches <- SomeBatches
  FaultKinds = {"scrape", "zip", "upload", "unlink", "reply"}
  MaxFaults = 2
INVARIANTS
  TypeOK
  MailIsWhole
  LinkServes
  LeftoversPaid
PROPERTIES
  SourcesGo
CHECK_DEADLOCK FALSE
