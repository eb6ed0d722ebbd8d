\* Right programs in the four languages of the README.
SPECIFICATION Spec
CONSTANTS
  t1 = t1
  t2 = t2
  t3 = t3
  Tests = {t1, t2, t3}
  SeqNo <- TiedSeqNo
  Languages = {"python", "javascript", "cpp", "java"}
  Behaviours = {"right"}
  None = None
INVARIANTS
  RightProgramAccepted
CHECK_DEADLOCK FALSE
