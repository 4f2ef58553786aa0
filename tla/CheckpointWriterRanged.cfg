SPECIFICATION FairSpec
CONSTANTS
  Chunks = {k1, k2}
  Length = 2
  Ranged = TRUE
  Identities = {a}
  None = none
  MaxFaults = 3
INVARIANTS ManifestDurable ClaimsBacked StopSaves
PROPERTIES CancelEnds TransferEnds ProgressKept
CHECK_DEADLOCK FALSE
