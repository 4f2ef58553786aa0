SPECIFICATION Spec
CONSTANTS
  h1 = h1
  tv = tv
  d1 = d1
  d2 = d2
  r1 = r1
  r2 = r2
  u1 = u1
  u2 = u2
  Hashes = {h1}
  Names = {tv}
  Roots = {d1, d2}
  None = none
  Requests = {r1, r2}
  Updates = {u1, u2}
  MaxActs = 4
  MaxFaults = 1
SYMMETRY Symmetric
PROPERTIES AddedServed
CHECK_DEADLOCK FALSE
