SPECIFICATION FairSpec
CONSTANTS
  Visits <- MCVisits
  MaxChecks = 2
  Nothing = Nothing
  Verdicts = {"accepted", "failed"}
  MaxPolls = 2
  Catalogue = {"p1", "p2"}
  Difficulty <- MCDifficulty
  Owner = "user"
  MaxDrafts = 2
  MaxCases = 2
INVARIANTS
  TypeOK
  SessionShown
  ListMatchesQuery
PROPERTY VerdictIsShown
CHECK_DEADLOCK FALSE
