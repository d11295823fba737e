SPECIFICATION MailFairSpec
CONSTANTS
  Users = {u1}
  Resets = {u1}
  Clients = {c1}
  Applicants = {a1}
  Modes <- Deployments
  Minute = 1
  Lifetime = 11
  Lag = 1
  MaxMails = 2
  MaxCrashes = 1
INVARIANTS FreshOnArrival UsableOnArrival
PROPERTY MailsSettle
