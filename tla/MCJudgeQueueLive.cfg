\* Three requests, no failures and no crash: what scheduling alone can do.
SPECIFICATION FairSpec
CONSTANTS
  Requests = {r1, r2, r3}
  Verdicts = {Judged}
  QueueCap = 2
  NoRow = NoRow
  Pending = Pending
  None = None
  Faults = FALSE
  MaxCrashes = 0
INVARIANTS
  AcceptedIsTracked
PROPERTIES
  NextRequestRescues
CHECK_DEADLOCK FALSE
