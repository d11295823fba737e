SPECIFICATION FairSpec
CONSTANTS
  Databases <- Either
  Users = {u1}
  Admins = {u1}
  Purposes <- EveryPurpose
  Workers = {w1, w2}
  Lifetime = 1
  MaxTime = 3
  MaxCodes = 2
INVARIANTS UnverifiedIsLatest UsesBounded EmailBacked ResetBacked ResetsBounded
PROPERTY ExpiredRowsGo
