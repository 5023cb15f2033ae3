\* Every kind of limit, the clock and the strict policy compete to stop the run; two workspaces
\* and a flaky evaluator; a durable write fails and Ctrl+C arrives, anywhere.
CONSTANTS
  Limits <- AllLimits
  RoleLimits <- RoleTokenLimit
  Roles <- MCRoles
  ScopeRoles <- MCScopeRoles
  MaxGenerations = 2
  None = None
  NumSeeds = 1
  ProposalsPerGeneration = 2
  MaxCallAttempts = 2
  MigrationInterval = 2
  StrictPolicy = TRUE
  RuntimeLimited = TRUE
  Workspaces = {w1, w2}
  Results <- LooseGoodOrLow
  DiffErrorResult <- Broken
  Accountings <- TimingOutEvaluations
  NoAccounting <- Free
  Usages <- TokenEach
  MaxFaults = 1
  MaxInterrupts = 1
SPECIFICATION FairSpec
INVARIANTS
  WithinLimits
  StopReasonTruthful
  CacheSound
  FailuresAccounted
  RecordsAgree
PROPERTIES
  NothingSpentAfterStop
  EvolveEnds
