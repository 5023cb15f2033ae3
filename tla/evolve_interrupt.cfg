\* Ctrl+C during an LLM call whose budget event cannot be appended.
CONSTANTS
  Limits <- NoLimits
  RoleLimits <- NoRoleLimits
  Roles <- MCRoles
  ScopeRoles <- MCScopeRoles
  MaxGenerations = 1
  None = None
  NumSeeds = 1
  ProposalsPerGeneration = 2
  MaxCallAttempts = 1
  MigrationInterval = 1
  StrictPolicy = FALSE
  RuntimeLimited = FALSE
  Workspaces = {w1}
  Results <- GoodOrInvalid
  DiffErrorResult <- Broken
  Accountings <- FreeEvaluations
  NoAccounting <- Free
  Usages <- Attempts
  MaxFaults = 1
  MaxInterrupts = 1
SPECIFICATION Spec
INVARIANTS
  InterruptEndsRun
