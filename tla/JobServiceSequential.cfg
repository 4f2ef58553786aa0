SPECIFICATION FairSpec
CONSTANTS
  Controllers = {c1}
  Poller = poller
  NoTask = none
  Commands = {"pause", "resume", "retry", "remove", "remove_files"}
  MaxFailures = 2
  MaxCommands = 3
  MaxFaults = 1
  ReconcileErrors = {"network", "rate_limited"}
  MissingDelete = TRUE
  StableLists = FALSE
  FilesListed = TRUE
INVARIANTS PausedQuiesces FilesDeleted
PROPERTIES RemovalDurable RemovalEnds JobEnds
CHECK_DEADLOCK FALSE
