SPECIFICATION FairSpec
CONSTANTS
  Students = {s1, s2}
  Orders = {o1, o2}
  Workers = {w1, w2}
  None = None
  Reports = {}
  Declinable = {o1}
  Reportable = {}
  Duration = 1
  YearOf <- MCYearOf
  MaxDay = 2
  MaxFaults = 1
PROPERTIES CapturedIsEnrolled RequestsEnd
