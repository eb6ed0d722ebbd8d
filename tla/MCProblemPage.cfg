SPECIFICATION FairSpec
CONSTANTS
  python = python
  java = java
  s1 = s1
  s2 = s2
  c1 = c1
  c2 = c2
  Panels <- MCPanels
  Plans <- MCPlans
  Languages = {python, java}
  FirstLanguage = python
  Versions = {1}
  FirstCodes <- MCFirstCodes
  Default = Default
  Blank = Blank
  NoText = NoText
  MaxLoads = 2
  Subs = {s1, s2}
  NoSub = NoSub
  Ends <- MCEnds
  FirstVerdicts <- MCFirstVerdicts
  MaxAsks = 1
  Inputs = {"in1", "in2"}
  Outputs = {"right", "wrong"}
  Empty = "empty"
  Crash = "crash"
  Output <- MCOutput
  Samples <- MCSamples
  MaxCases = 3
  MaxHints = 2
  HintCounts = {0, 3}
  Completions = {c1, c2}
  NoHelp = NoHelp
  Requests <- MCRequests
  Services <- MCServices
  ServiceOf <- MCServiceOf
  Limit <- MCLimit
  NoDoc = NoDoc
INVARIANTS
  TypeOK
  NoForeignCode
  AutosaveKeepsUp
  ViewFollowsPick
  GreenIsEarned
  OfferIsFresh
  NeverRefusedEarly
  LimitKeptAlone
PROPERTY VerdictReachesView
CHECK_DEADLOCK FALSE
