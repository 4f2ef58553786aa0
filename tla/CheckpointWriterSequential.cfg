SPECIFICATION Spec
CONSTANTS
  Chunks = {k1}
  Length = 3
  Ranged = FALSE
  Identities = {a}
  None = none
  MaxFaults = 3
INVARIANTS PublishedDurable
CHECK_DEADLOCK FALSE
