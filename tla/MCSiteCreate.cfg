SPECIFICATION Spec
CONSTANTS
  Visits <- MCMaking
  MaxChecks = 2
  Nothing = Nothing
  Verdicts = {"accepted", "failed"}
  MaxPolls = 2
  Catalogue = {"p1", "p2"}
  Difficulty <- MCDifficulty
  Owner = "user"
  MaxDrafts = 2
  MaxCases = 2
INVARIANT CreatePublishes
CHECK_DEADLOCK FALSE
