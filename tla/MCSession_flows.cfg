SPECIFICATION FairSpec
CONSTANTS
  Sessions = {s1, s2}
  Workers = {w1, w2}
  AccessLife = 2
  RefreshLife = 3
  FlagLife = 3
  MeLife = 1
  MaxEdits = 1
  MaxFaults = 1
PROPERTIES RevokedKeptOut MeCatchesUp
CHECK_DEADLOCK FALSE
