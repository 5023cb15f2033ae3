CONSTANTS
  Damaged = Damaged
  Threshold = 1
  MaxHops = 1
  Templates = 2
  RewardCeiling = 1
  Policies = {"fail", "overwrite"}
  Scores <- MCScores
  Prints = {"f1"}
  PathKinds = {"plain"}
  MaxSeeds = 2
  MaxChildren = 1
  MaxRuns = 2
  MaxFaults = 2
SPECIFICATION Spec
CHECK_DEADLOCK FALSE
INVARIANTS
  ArchiveIsRecorded
  NumbersInStep
  NoCandidateForgotten
  PromptReplays
  ShownIsTrue
  PairIsWhole
