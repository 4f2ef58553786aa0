SPECIFICATION FairSpec
CONSTANTS
  a = a
  b = b
  d1 = d1
  d2 = d2
  d3 = d3
  Jobs = {a, b}
  Paths = {d1, d2, d3}
  Target <- Apart
  Ranged = TRUE
  Strangers = {other, odd}
  None = none
  Other = other
  Odd = odd
  Mixed = mixed
  MaxFaults = 1
  MaxActs = 2
INVARIANTS TypeOK OwnContent CompletedWhole PublishedRecorded
  
CHECK_DEADLOCK FALSE
