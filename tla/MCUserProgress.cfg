\* Three accepted submissions, three days, one failing call or crash.
SPECIFICATION Spec
CONSTANTS
  s1 = s1
  s2 = s2
  s3 = s3
  p = p
  q = q
  array = array
  graph = graph
  Submissions = {s1, s2, s3}
  Problems = {p, q}
  ProblemOf <- MCProblemOf
  Skills = {array, graph}
  Tags <- MCTags
  MaxDay = 3
  MaxFaults = 1
INVARIANTS
  TypeOK
  NotCountedTwice
  SolvedIsExact
  OneCheckinADay
  EndedIsCheckedIn
  StreakIsBacked
  StreakIsExact
\* The submissions are finitely many and their goroutines end.
CHECK_DEADLOCK FALSE
