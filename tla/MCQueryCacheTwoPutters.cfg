SPECIFICATION Spec
CONSTANTS
  k1 = k1  k2 = k2  p = p  g = g
  Key = {k1, k2}
  Client = {p, g}
  Putter = {p, g}
  PageSize = 2
  NumPages = 1
  MaxSize = 2
  MaxEntries = 2
  MaxPuts = 3
INVARIANTS HitIsLastPut
CHECK_DEADLOCK FALSE
