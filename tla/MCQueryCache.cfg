SPECIFICATION Spec
CONSTANTS
  k1 = k1  k2 = k2  p = p  g1 = g1  g2 = g2
  Key = {k1, k2}
  Client = {p, g1, g2}
  Putter = {p}
  PageSize = 2
  NumPages = 2
  MaxSize = 3
  MaxEntries = 1
  MaxPuts = 3
SYMMETRY Getters
INVARIANTS TypeOK HitIsLastPut
CHECK_DEADLOCK FALSE
