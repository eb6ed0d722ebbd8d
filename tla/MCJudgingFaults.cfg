\* Any call may fail, or none, and the 10 seconds may end at any point.
SPECIFICATION FairSpec
CONSTANTS
  t1 = t1
  t2 = t2
  t3 = t3
  Tests = {t1, t2, t3}
  SeqNo <- TiedSeqNo
  Languages = {"python", "cpp", "pseudocode"}
  Behaviours = {"right", "wrong"}
  None = None
INVARIANTS
  TypeOK
  VerdictMatchesRun
  AcceptedIsEarned
  ShownFailureIsReal
  ShownFailureIsFirst
PROPERTIES
  FrozenAfterVerdict
  JudgementEnds
\* The judgement ends.
CHECK_DEADLOCK FALSE
