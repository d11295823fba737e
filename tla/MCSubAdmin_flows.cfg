SPECIFICATION FairSpec
CONSTANTS
  m1 = m1
  m2 = m2
  Modules = {m1, m2}
  Patches <- MCPatches
  Workers = {w1, w2}
  None = None
INVARIANTS ListedIsGranted
PROPERTIES OmittedActiveKept RequestsEnd ImplementsAccess
