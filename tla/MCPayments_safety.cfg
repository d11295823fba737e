SPECIFICATION Spec
CONSTANTS
  Students = {s1, s2}
  Orders = {o1, o2, o3}
  Workers = {w1, w2}
  None = None
  Reports = {"null"}
  Declinable = {o1}
  Reportable = {o1}
  Duration = 1
  YearOf <- MCYearOf
  MaxDay = 2
  MaxFaults = 1
INVARIANTS NumbersGapless PaidForByOwner PaidStudentEnrolled BoughtOnce DuplicatesBounded
PROPERTIES ExpiryNeverMovesBack ImplementsRegister
SYMMETRY UndeclinedSymmetry
VIEW Unanswered
