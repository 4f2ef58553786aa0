SPECIFICATION FairSpec
CONSTANTS
  c1 = c1
  c2 = c2
  c3 = c3
  Chunks = {c1, c2, c3}
  Size = 2
  Connections = 2
  Retries = 2
  Nobody = nobody
  MaxExpiries = 2
  MaxFaults = 1
  MaxStalls = 1
INVARIANTS FreshKept AttemptsEarned
PROPERTIES BytesKept TransferEnds
CHECK_DEADLOCK FALSE
