\* The lost wake-up: two requests, no failures, no crash, fair scheduling.
SPECIFICATION FairSpec
CONSTANTS
  Requests = {r1, r2}
  Verdicts = {Judged}
  QueueCap = 2
  NoRow = NoRow
  Pending = Pending
  None = None
  Faults = FALSE
  MaxCrashes = 0
PROPERTIES
  AcceptedIsJudged
CHECK_DEADLOCK FALSE
