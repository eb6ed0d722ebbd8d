\* Two submissions to one problem, no failure: what overlapping writers store.
SPECIFICATION Spec
CONSTANTS
  s1 = s1
  s2 = s2
  s3 = s3
  l1 = l1
  p = p
  q = q
  Submissions = {s1, s2, s3}
  Listings = {l1}
  Problems = {p, q}
  ProblemOf <- MCProblemOf
  MaxFaults = 0
INVARIANTS
  RateIsAPercentage
CHECK_DEADLOCK FALSE
