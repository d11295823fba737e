SPECIFICATION Spec
CONSTANTS
  old = old
  new = new
  mixed = mixed
  Candidates = {old, new, mixed}
  Attr <- MCAttr
  Configs <- MCConfigs
  MaxTime = 1
  MaxUpdates = 1
INVARIANTS HitsWereAllowed QuietListExact CardsAddUp
