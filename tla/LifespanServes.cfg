SPECIFICATION LifeSpec
CONSTANTS
  Jobs = {j1, j2, j3}
  Limits = {2, 3}
  Poisoned = {j1}
  MaxChanges = 1
  MaxRequests = 1
INVARIANTS LifeTypeOK ClosedLast
PROPERTIES WithinLimit AnswerSuffices Served ShutdownEnds
CHECK_DEADLOCK FALSE
