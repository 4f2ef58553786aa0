SPECIFICATION Spec
CONSTANTS
  Controllers = {c1, c2}
  Poller = poller
  NoTask = none
  Commands = {"pause", "remove"}
  MaxFailures = 2
  MaxCommands = 2
  MaxFaults = 0
  ReconcileErrors = {"network"}
  MissingDelete = TRUE
  StableLists = TRUE
  FilesListed = TRUE
PROPERTIES RemovalDurable
CHECK_DEADLOCK FALSE
