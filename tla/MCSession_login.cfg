SPECIFICATION Spec
CONSTANTS
  Sessions = {s1, s2}
  Workers = {w1, w2}
  AccessLife = 2
  RefreshLife = 3
  FlagLife = 3
  MeLife = 1
  MaxEdits = 0
  MaxFaults = 0
INVARIANT LoginAdmits
CHECK_DEADLOCK FALSE
