\* Overlapping writers of one problem, one failing call or crash.
SPECIFICATION Spec
CONSTANTS
  s1 = s1
  s2 = s2
  s3 = s3
  l1 = l1
  p = p
  q = q
  Submissions = {s1, s2, s3}
  Listings = {l1}
  Problems = {p, q}
  ProblemOf <- MCProblemOf
  MaxFaults = 1
INVARIANTS
  TypeOK
  RateIsExactAtRest
  CountersExact
\* The submissions are finitely many and their goroutines end.
CHECK_DEADLOCK FALSE
