SPECIFICATION Spec
CONSTANTS
  Apps = {p, q}
  Latest = 2
  Size = 2
  BundleVersion = 1
  None = none
  MaxWrites = 2
  MaxReads = 2
  MaxRestores = 2
  MaxDeaths = 2
INVARIANTS SoleOwner Recoverable RestoredWhole UpExact
SYMMETRY Alike
CHECK_DEADLOCK FALSE
