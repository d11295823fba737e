SPECIFICATION Spec
CONSTANTS
  Students = {s1}
  Orders = {o1, o2}
  Workers = {w1, w2}
  None = None
  Reports = {"declined", "null"}
  Declinable = {o1, o2}
  Reportable = {o1, o2}
  Duration = 1
  YearOf <- MCYearOf
  MaxDay = 2
  MaxFaults = 0
INVARIANT AnsweredMeansActivated
