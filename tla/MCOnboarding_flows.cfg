SPECIFICATION FairSpec
CONSTANTS
  Apps = {a1}
  Emails <- OneApplicant
  Workers = {w1, w2}
  None = None
  MaxCodes = 2
  MaxEdits = 1
INVARIANTS AdmittedInGoodStanding OneUsePerCode VerifiedMeansReferred
PROPERTIES RequestsEnd ImplementsAdmission
