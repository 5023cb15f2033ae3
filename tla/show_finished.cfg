CONSTANTS
  Damaged = Damaged
  Threshold = 1
  MaxHops = 1
  Templates = 2
  RewardCeiling = 1
  Policies = {"fail", "overwrite"}
  Scores <- MCScores
  Prints = {"f1"}
  PathKinds = {"plain", "reserved"}
  MaxSeeds = 2
  MaxChildren = 1
  MaxRuns = 1
  MaxFaults = 1
SPECIFICATION Spec
CHECK_DEADLOCK FALSE
INVARIANT FinishedRunsShow
