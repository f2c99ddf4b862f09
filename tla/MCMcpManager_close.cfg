SPECIFICATION Spec
CONSTANTS
  Servers = {s1}
  Calls = {c1, c2}
  Conns = {k1}
  None = none
  MaxLosses = 0
CHECK_DEADLOCK FALSE
INVARIANT
  CloseGoesThrough
