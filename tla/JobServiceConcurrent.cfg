SPECIFICATION Spec
CONSTANTS
  Controllers = {c1, c2}
  Poller = poller
  NoTask = none
  Commands = {"pause", "resume", "retry", "remove", "remove_files"}
  MaxFailures = 3
  MaxCommands = 2
  MaxFaults = 1
  ReconcileErrors = {"network", "refused"}
  MissingDelete = TRUE
  StableLists = TRUE
  FilesListed = TRUE
INVARIANTS OneProcessor  RemovedRemote
PROPERTIES Promised LocalAfterRemote
CHECK_DEADLOCK FALSE
