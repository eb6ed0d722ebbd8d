\* A Python program that does not end on one of the test cases.
SPECIFICATION Spec
CONSTANTS
  t1 = t1
  t2 = t2
  t3 = t3
  Tests = {t1, t2, t3}
  SeqNo <- TiedSeqNo
  Languages = {"python"}
  Behaviours = {"right", "hang"}
  None = None
INVARIANTS
  TimeLimitReported
CHECK_DEADLOCK FALSE
